---- MODULE Spec2Model ----
(***************************************************************************)
(* Model of scripts/rigorous_benchmark.py and                              *)
(* scripts/rigorous_benchmark_demo.py: the acquisition protocol            *)
(* (run_benchmark), the BenchmarkResult statistics, the outlier filter,    *)
(* the speedup estimator and the validity gate.                            *)
(*                                                                         *)
(* Numbers.  Measurements are integers (a fixed unit of time).  mean is    *)
(* the exact fraction <<Sum, n>>.  Quantities that contain a square root   *)
(* (stdev, cv, margins, relative errors) are kept as a sign and the        *)
(* fraction under the root, [sgn, num, den] = sgn * sqrt(num / den), and   *)
(* are compared after squaring, so every comparison of the code is decided *)
(* exactly.  A raised Python exception is a record [exc |-> <name>].       *)
(***************************************************************************)
EXTENDS Integers, Sequences, FiniteSets, TLC

VARIABLES
    pc,            \* position of run_benchmark / of the analysis session
    iterations,    \* run_benchmark argument
    warmup,        \* run_benchmark argument
    w,             \* warmup invocations completed
    i,             \* timed loop index (completed timed invocations)
    measurements,  \* run_benchmark's local list
    running,       \* the child process in flight: "none", "warmup", "timed"
    log,           \* completed invocations, in order of completion
    exc,           \* exception that left run_benchmark, or "none"
    returned,      \* the list run_benchmark returned (when pc = "returned")
    heap,          \* Python list objects: identity -> contents
    objs,          \* BenchmarkResult objects: identity -> [name, measurements]
    sigmas,     \* the outlier sigmas the session filters with
    ret,           \* outcome of the last statistics call
    appends        \* number of caller-side list.append calls so far

vars == <<pc, iterations, warmup, w, i, measurements, running, log, exc,
          returned, heap, objs, sigmas, ret, appends>>

acqVars == <<pc, iterations, warmup, w, i, measurements, running, log, exc,
             returned>>
statVars == <<heap, objs, sigmas, ret, appends>>

----------------------------------------------------------------------------
(* Bounds *)
MaxIter == 2
MaxWarmup == 2
MaxLen == 3        \* longest initial measurement list
MaxObjs == 3       \* BenchmarkResult objects a session may hold
MaxAppends == 1    \* caller-side appends in a session
BigN == 900        \* length of the one long Sample of the analysis session

----------------------------------------------------------------------------
(* Text handling used by run_benchmark.  A string is a sequence of         *)
(* one-character strings.                                                  *)

KeyGenMarker == <<"K", "e", "y", "G", "e", "n", ":">>

Whitespace == {" ", "\t"}

Digits == {"0", "1", "2", "3", "4", "5", "6", "7", "8", "9"}

DigitVal(c) ==
    CASE c = "0" -> 0 [] c = "1" -> 1 [] c = "2" -> 2 [] c = "3" -> 3
      [] c = "4" -> 4 [] c = "5" -> 5 [] c = "6" -> 6 [] c = "7" -> 7
      [] c = "8" -> 8 [] c = "9" -> 9

\* index of the first element of s that is in set cs, 0 when there is none
RECURSIVE FirstIn(_, _, _)
FirstIn(s, cs, k) ==
    IF k > Len(s) THEN 0
    ELSE IF s[k] \in cs THEN k
    ELSE FirstIn(s, cs, k + 1)

\* index of the first element of s that is NOT in set cs, 0 when there is none
RECURSIVE FirstNotIn(_, _, _)
FirstNotIn(s, cs, k) ==
    IF k > Len(s) THEN 0
    ELSE IF s[k] \notin cs THEN k
    ELSE FirstNotIn(s, cs, k + 1)

\* str.splitlines(): cut at every "\n"; no empty last line
RECURSIVE splitlines(_)
splitlines(s) ==
    IF s = <<>> THEN <<>>
    ELSE LET k == FirstIn(s, {"\n"}, 1)
         IN  IF k = 0 THEN <<s>>
             ELSE <<SubSeq(s, 1, k - 1)>> \o splitlines(SubSeq(s, k + 1, Len(s)))

\* str.split(): cut at runs of whitespace, no empty pieces
RECURSIVE split(_)
split(s) ==
    LET b == FirstNotIn(s, Whitespace, 1)
    IN  IF b = 0 THEN <<>>
        ELSE LET e == FirstIn(s, Whitespace, b)
             IN  IF e = 0 THEN <<SubSeq(s, b, Len(s))>>
                 ELSE <<SubSeq(s, b, e - 1)>> \o split(SubSeq(s, e, Len(s)))

\* `sub in s` for strings
Contains(s, sub) ==
    \E k \in 1..(Len(s) - Len(sub) + 1) : SubSeq(s, k, k + Len(sub) - 1) = sub

RECURSIVE DigitsValue(_)
DigitsValue(s) ==
    IF s = <<>> THEN 0
    ELSE 10 * DigitsValue(SubSeq(s, 1, Len(s) - 1)) + DigitVal(s[Len(s)])

RECURSIVE Pow10(_)
Pow10(k) == IF k = 0 THEN 1 ELSE 10 * Pow10(k - 1)

\* float(tok) on decimal literals [+-]digits[.digits]: the value as the
\* fraction <<num, den>>, or ValueError.  (Exponents, inf, nan and underscores
\* do not occur in the outputs enumerated below.)
float(tok) ==
    LET signed == tok # <<>> /\ tok[1] \in {"+", "-"}
        body   == IF signed THEN SubSeq(tok, 2, Len(tok)) ELSE tok
        dot    == FirstIn(body, {"."}, 1)
        ip     == IF dot = 0 THEN body ELSE SubSeq(body, 1, dot - 1)
        fp     == IF dot = 0 THEN <<>> ELSE SubSeq(body, dot + 1, Len(body))
        ok     == /\ \A k \in 1..Len(ip) : ip[k] \in Digits
                  /\ \A k \in 1..Len(fp) : fp[k] \in Digits
                  /\ Len(ip) + Len(fp) > 0
        mag    == DigitsValue(ip \o fp)
    IN  IF ~ok THEN [exc |-> "ValueError"]
        ELSE [exc |-> "none",
              val |-> <<IF signed /\ tok[1] = "-" THEN 0 - mag ELSE mag,
                        Pow10(Len(fp))>>]

\* The parsing loop of run_benchmark, lines 113-120: the first line that
\* contains the marker decides; "skip" when no line contains it.
RECURSIVE parse_lines(_)
parse_lines(lines) ==
    IF lines = <<>> THEN [exc |-> "none", kind |-> "skip"]
    ELSE IF Contains(Head(lines), KeyGenMarker)
         THEN LET parts == split(Head(lines))
              IN  IF Len(parts) < 2 THEN [exc |-> "IndexError"]
                  ELSE LET f == float(parts[2])
                       IN  IF f.exc # "none" THEN [exc |-> f.exc]
                           ELSE [exc |-> "none", kind |-> "value", val |-> f.val]
         ELSE parse_lines(Tail(lines))

parse_stdout(stdout) == parse_lines(splitlines(stdout))

\* subprocess.run(..., check=True): CalledProcessError on a non-zero status
CheckFails_unchecked(rc) == FALSE

CheckFails(rc) == rc # 0

----------------------------------------------------------------------------
(* What the benchmarked executable may print and return. *)

OutValue12 == KeyGenMarker \o <<" ", "1", "2", ".", "5", " ", "u", "s", "\n">>
OutValue7 == <<"E", "n", "c", ":", " ", "3", "\n">>
                 \o KeyGenMarker \o <<" ", "7", " ", "u", "s", "\n">>
OutNegative == KeyGenMarker \o <<"\t", "-", "3", ".", "0", "\n">>
OutNoMarker == <<"E", "n", "c", ":", " ", "3", " ", "u", "s", "\n">>
OutEmpty == <<>>
OutNoToken == KeyGenMarker \o <<"\n">>
OutGlued == KeyGenMarker \o <<"7", "\n">>
OutBadFloat == KeyGenMarker \o <<" ", "n", "/", "a", "\n">>
                   \o KeyGenMarker \o <<" ", "7", "\n">>
OutLabelSecond == <<"t", " ">> \o KeyGenMarker \o <<" ", "7", "\n">>

Outputs == {OutValue12, OutValue7, OutNegative, OutNoMarker, OutEmpty,
            OutNoToken, OutGlued, OutBadFloat, OutLabelSecond}

ExitCodes == {0, 1}

NoRet == [op |-> "none"]

----------------------------------------------------------------------------
(* run_benchmark *)

InitAcq ==
    /\ pc = "warmup"
    /\ iterations \in 0..MaxIter
    /\ warmup \in 0..MaxWarmup
    /\ w = 0
    /\ i = 0
    /\ measurements = <<>>
    /\ running = "none"
    /\ log = <<>>
    /\ exc = "none"
    /\ returned = <<>>
    /\ heap = <<>>
    /\ objs = <<>>
    /\ sigmas = <<3, 1>>
    /\ ret = NoRet
    /\ appends = 0

\* line 91: subprocess.run starts the child of a warmup iteration
StartWarmup ==
    /\ pc = "warmup"
    /\ running = "none"
    /\ w < warmup
    /\ running' = "warmup"
    /\ UNCHANGED <<pc, iterations, warmup, w, i, measurements, log, exc, returned>>
    /\ UNCHANGED statVars

\* lines 91-94: the child ends; its output goes to DEVNULL
FinishWarmup(rc) ==
    /\ pc = "warmup"
    /\ running = "warmup"
    /\ running' = "none"
    /\ log' = Append(log, [phase |-> "warmup", rc |-> rc, out |-> <<>>])
    /\ IF CheckFails(rc)
       THEN /\ pc' = "raised"
            /\ exc' = "CalledProcessError"
            /\ w' = w
       ELSE /\ w' = w + 1
            /\ UNCHANGED <<pc, exc>>
    /\ UNCHANGED <<iterations, warmup, i, measurements, returned>>
    /\ UNCHANGED statVars

\* lines 96-100: the warmup loop is over, the measurement list is created
BeginTimed ==
    /\ pc = "warmup"
    /\ running = "none"
    /\ w >= warmup
    /\ pc' = "timed"
    /\ measurements' = <<>>
    /\ i' = 0
    /\ UNCHANGED <<iterations, warmup, w, running, log, exc, returned>>
    /\ UNCHANGED statVars

\* line 107: subprocess.run starts the child of timed iteration i
StartTimed ==
    /\ pc = "timed"
    /\ running = "none"
    /\ i < iterations
    /\ running' = "timed"
    /\ UNCHANGED <<pc, iterations, warmup, w, i, measurements, log, exc, returned>>
    /\ UNCHANGED statVars

\* lines 107-120: the child ends, its output is parsed
FinishTimed(rc, out) ==
    /\ pc = "timed"
    /\ running = "timed"
    /\ running' = "none"
    /\ log' = Append(log, [phase |-> "timed", rc |-> rc, out |-> out])
    /\ IF CheckFails(rc)
       THEN /\ pc' = "raised"
            /\ exc' = "CalledProcessError"
            /\ UNCHANGED <<i, measurements>>
       ELSE LET p == parse_stdout(out)
            IN  IF p.exc # "none"
                THEN /\ pc' = "raised"
                     /\ exc' = p.exc
                     /\ UNCHANGED <<i, measurements>>
                ELSE /\ measurements' = IF p.kind = "value"
                                        THEN Append(measurements, p.val)
                                        ELSE measurements
                     /\ i' = i + 1
                     /\ UNCHANGED <<pc, exc>>
    /\ UNCHANGED <<iterations, warmup, w, returned>>
    /\ UNCHANGED statVars

\* lines 122-123: the timed loop is over
Return ==
    /\ pc = "timed"
    /\ running = "none"
    /\ i >= iterations
    /\ pc' = "returned"
    /\ returned' = measurements
    /\ UNCHANGED <<iterations, warmup, w, i, measurements, running, log, exc>>
    /\ UNCHANGED statVars

NextAcq ==
    \/ StartWarmup
    \/ \E rc \in ExitCodes : FinishWarmup(rc)
    \/ BeginTimed
    \/ StartTimed
    \/ \E rc \in ExitCodes, out \in Outputs : FinishTimed(rc, out)
    \/ Return

SpecAcq == InitAcq /\ [][NextAcq]_vars

----------------------------------------------------------------------------
(* Arithmetic.  A fraction is <<num, den>> with den > 0.  A surd is        *)
(* [sgn, num, den] = sgn * sqrt(num / den) with num >= 0, den > 0 and      *)
(* sgn = 0 exactly when num = 0.  Both are kept in lowest terms, so that   *)
(* equal numbers are equal values.                                         *)

Sign(x) == IF x > 0 THEN 1 ELSE IF x < 0 THEN 0 - 1 ELSE 0

Abs(x) == IF x < 0 THEN 0 - x ELSE x

RECURSIVE Gcd(_, _)
Gcd(a, b) == IF b = 0 THEN a ELSE Gcd(b, a % b)

\* the fraction a / b, b # 0, in lowest terms with a positive denominator
Frac(a, b) ==
    LET g == Gcd(Abs(a), Abs(b))
    IN  <<Sign(b) * (a \div g), Abs(b) \div g>>

Surd(sgn, num, den) ==
    IF num = 0 \/ sgn = 0 THEN [sgn |-> 0, num |-> 0, den |-> 1]
    ELSE LET g == Gcd(num, den)
         IN  [sgn |-> sgn, num |-> num \div g, den |-> den \div g]

ZeroSurd == Surd(0, 0, 1)

\* the fraction f as a surd
FromFrac(f) == Surd(Sign(f[1]), f[1] * f[1], f[2] * f[2])

\* math.sqrt(n), n > 0
SqrtInt(n) == Surd(1, n, 1)

\* x * y; common factors are cancelled before multiplying
SurdMul(x, y) ==
    LET g1 == Gcd(x.num, y.den)
        g2 == Gcd(y.num, x.den)
    IN  Surd(x.sgn * y.sgn,
             (x.num \div g1) * (y.num \div g2),
             (x.den \div g2) * (y.den \div g1))

\* x / y, y # 0
SurdDiv(x, y) == SurdMul(x, [sgn |-> y.sgn, num |-> y.den, den |-> y.num])

\* x < y
SurdLt(x, y) ==
    IF x.sgn # y.sgn THEN x.sgn < y.sgn
    ELSE IF x.sgn = 0 THEN FALSE
    ELSE LET r == SurdDiv(x, y)
         IN  IF x.sgn > 0 THEN r.num < r.den ELSE r.num > r.den

\* x <= y
SurdLe(x, y) == ~SurdLt(y, x)

\* sum of m[lo..hi], by halves (the recursion stays shallow on long lists)
RECURSIVE SumRange(_, _, _)
SumRange(m, lo, hi) ==
    IF lo > hi THEN 0
    ELSE IF lo = hi THEN m[lo]
    ELSE LET mid == (lo + hi) \div 2
         IN  SumRange(m, lo, mid) + SumRange(m, mid + 1, hi)

Sum(m) == SumRange(m, 1, Len(m))

RECURSIVE SumSqRange(_, _, _)
SumSqRange(m, lo, hi) ==
    IF lo > hi THEN 0
    ELSE IF lo = hi THEN m[lo] * m[lo]
    ELSE LET mid == (lo + hi) \div 2
         IN  SumSqRange(m, lo, mid) + SumSqRange(m, mid + 1, hi)

SumSq(m) == SumSqRange(m, 1, Len(m))

\* Len(m) times the sum of the squared deviations from the mean
ScaledSS(m) ==
    LET total == Sum(m)
    IN  Len(m) * SumSq(m) - total * total

Raise(e) == [exc |-> e]

Ok(v) == [exc |-> "none", val |-> v]

----------------------------------------------------------------------------
(* BenchmarkResult: the derived statistics of a measurement list m *)

\* statistics.mean: StatisticsError on an empty list
mean(m) ==
    IF Len(m) < 1 THEN Raise("StatisticsError")
    ELSE Ok(Frac(Sum(m), Len(m)))

\* statistics.stdev (divisor n - 1): StatisticsError on fewer than two points
stdev(m) ==
    IF Len(m) < 2 THEN Raise("StatisticsError")
    ELSE Ok(Surd(1, ScaledSS(m), Len(m) * (Len(m) - 1)))

\* 100.0 * self.stdev / self.mean if self.mean > 0 else 0.0
cv(m) ==
    LET mu == mean(m)
    IN  IF mu.exc # "none" THEN mu
        ELSE IF mu.val[1] > 0
             THEN LET sd == stdev(m)
                  IN  IF sd.exc # "none" THEN sd
                      ELSE Ok(SurdDiv(SurdMul(FromFrac(<<100, 1>>), sd.val),
                                      FromFrac(mu.val)))
             ELSE Ok(ZeroSurd)

\* scipy.stats.t.ppf((1 + confidence) / 2, df) to one decimal, as a fraction;
\* confidence in percent
TQuantile(confidence, df) ==
    LET row == CASE confidence = 90 -> <<63, 29, 24, 21, 20, 19, 16>>
                 [] confidence = 95 -> <<127, 43, 32, 28, 26, 24, 20>>
                 [] confidence = 99 -> <<637, 99, 58, 46, 40, 37, 26>>
    IN  <<row[IF df < 7 THEN df ELSE 7], 10>>

ConfLevels == {90, 95, 99}

\* the interval (mean - margin, mean + margin) is kept as [mean, margin]
confidence_interval(m, confidence) ==
    LET mu == mean(m)
    IN  IF Len(m) < 2
        THEN IF mu.exc # "none" THEN mu
             ELSE Ok([mean |-> mu.val, margin |-> ZeroSurd])
        ELSE LET t_value == TQuantile(confidence, Len(m) - 1)
                 sd == stdev(m)
             IN  IF sd.exc # "none" THEN sd
                 ELSE Ok([mean |-> mu.val,
                          margin |-> SurdDiv(SurdMul(FromFrac(t_value), sd.val),
                                             SqrtInt(Len(m)))])

\* rigorous_benchmark_demo.py: z = 1.96 whatever the confidence
demo_confidence_interval(m, confidence) ==
    LET mu == mean(m)
    IN  IF Len(m) < 2
        THEN IF mu.exc # "none" THEN mu
             ELSE Ok([mean |-> mu.val, margin |-> ZeroSurd])
        ELSE LET z == <<196, 100>>
                 sd == stdev(m)
             IN  IF sd.exc # "none" THEN sd
                 ELSE Ok([mean |-> mu.val,
                          margin |-> SurdDiv(SurdMul(FromFrac(z), sd.val),
                                             SqrtInt(Len(m)))])

----------------------------------------------------------------------------
(* remove_outliers *)

\* abs(t - mean) <= threshold * stdev, with mean = mu and stdev = sd
Within_strict(t, mu, sd, threshold) ==
    SurdLt(FromFrac(Frac(Abs(t * mu[2] - mu[1]), mu[2])),
           SurdMul(FromFrac(threshold), sd))

Within(t, mu, sd, threshold) ==
    SurdLe(FromFrac(Frac(Abs(t * mu[2] - mu[1]), mu[2])),
           SurdMul(FromFrac(threshold), sd))

\* [t for t in self.measurements if abs(t - mean) <= threshold * stdev]
RECURSIVE Comprehension_reversed(_, _, _, _)
Comprehension_reversed(m, mu, sd, threshold) ==
    IF m = <<>> THEN <<>>
    ELSE IF Within(Head(m), mu, sd, threshold)
         THEN Comprehension_reversed(Tail(m), mu, sd, threshold) \o <<Head(m)>>
         ELSE Comprehension_reversed(Tail(m), mu, sd, threshold)

RECURSIVE Comprehension(_, _, _, _)
Comprehension(m, mu, sd, threshold) ==
    IF m = <<>> THEN <<>>
    ELSE IF Within(Head(m), mu, sd, threshold)
         THEN <<Head(m)>> \o Comprehension(Tail(m), mu, sd, threshold)
         ELSE Comprehension(Tail(m), mu, sd, threshold)

\* the function on the measurement list: the filtered list and whether the
\* 5% warning is printed, or the exception of mean / stdev
remove_outliers(m, threshold) ==
    LET mu == mean(m)
        sd == stdev(m)
    IN  IF mu.exc # "none" THEN mu
        ELSE IF sd.exc # "none" THEN sd
        ELSE LET filtered == Comprehension(m, mu.val, sd.val, threshold)
                 removed_count == Len(m) - Len(filtered)
             IN  Ok([filtered |-> filtered,
                     warned |-> 100 * removed_count > 5 * Len(m)])

\* BenchmarkResult(name=..., measurements=filtered): the comprehension's list
\* is a new list object
StoreFiltered_inplace(hp, src, filtered) ==
    [heap |-> [hp EXCEPT ![src] = filtered], id |-> src]

StoreFiltered(hp, src, filtered) ==
    [heap |-> Append(hp, filtered), id |-> Len(hp) + 1]

----------------------------------------------------------------------------
(* A filtering session: one Sample and one threshold; the Sample and the   *)
(* filtered Samples derived from it are filtered (possibly repeatedly),    *)
(* while the caller may append to any of the lists.                        *)

SeqsUpTo(S, n) == UNION {[1..k -> S] : k \in 1..n}

FilterVals == {0, 1, 4}

Thresholds == {<<0 - 1, 1>>, <<0, 1>>, <<1, 2>>, <<1, 1>>, <<3, 1>>}

AppendVals == {9}

Content(o) == heap[objs[o].measurements]

InitFilter ==
    /\ pc = "analysis"
    /\ iterations = 0
    /\ warmup = 0
    /\ w = 0
    /\ i = 0
    /\ measurements = <<>>
    /\ running = "none"
    /\ log = <<>>
    /\ exc = "none"
    /\ returned = <<>>
    /\ \E m \in SeqsUpTo(FilterVals, MaxLen) : heap = <<m>>
    /\ objs = <<[name |-> "A", measurements |-> 1]>>
    /\ sigmas \in Thresholds
    /\ ret = NoRet
    /\ appends = 0

\* objs[o].remove_outliers(threshold=sigmas), lines 54-76
CallRemoveOutliers(o) ==
    /\ pc = "analysis"
    /\ o \in DOMAIN objs
    /\ Len(objs) < MaxObjs
    /\ LET m == Content(o)
           r == remove_outliers(m, sigmas)
       IN  IF r.exc # "none"
           THEN /\ ret' = [op |-> "remove_outliers", self |-> o,
                           threshold |-> sigmas, input |-> m, exc |-> r.exc]
                /\ UNCHANGED <<heap, objs>>
           ELSE LET st == StoreFiltered(heap, objs[o].measurements, r.val.filtered)
                IN  /\ heap' = st.heap
                    /\ objs' = Append(objs, [name |-> objs[o].name \o " (filtered)",
                                             measurements |-> st.id])
                    /\ ret' = [op |-> "remove_outliers", self |-> o,
                               threshold |-> sigmas, input |-> m,
                               exc |-> "none", val |-> Len(objs) + 1,
                               output |-> r.val.filtered,
                               warned |-> r.val.warned]
    /\ UNCHANGED <<sigmas, appends>>
    /\ UNCHANGED acqVars

\* the caller appends to a measurement list (the dataclass is not frozen and
\* its list is an ordinary mutable list)
ListAppend(l, v) ==
    /\ pc = "analysis"
    /\ l \in DOMAIN heap
    /\ appends < MaxAppends
    /\ heap' = [heap EXCEPT ![l] = Append(@, v)]
    /\ appends' = appends + 1
    /\ UNCHANGED <<objs, sigmas, ret>>
    /\ UNCHANGED acqVars

NextFilter ==
    \/ \E o \in 1..MaxObjs : CallRemoveOutliers(o)
    \/ \E l \in 1..MaxObjs, v \in AppendVals : ListAppend(l, v)

SpecFilter == InitFilter /\ [][NextFilter]_vars

----------------------------------------------------------------------------
(* compute_speedup (both scripts carry the same function) *)

\* stdev / (mean * math.sqrt(n))
rel_err(m) ==
    LET sd == stdev(m)
        mu == mean(m)
    IN  IF sd.exc # "none" THEN sd
        ELSE IF mu.val[1] = 0 THEN Raise("ZeroDivisionError")
        ELSE Ok(SurdDiv(sd.val, SurdMul(FromFrac(mu.val), SqrtInt(Len(m)))))

\* baseline.mean / optimized.mean: float division raises on a zero divisor
MeanRatio(mb, mo) ==
    IF mo[1] = 0 THEN Raise("ZeroDivisionError")
    ELSE Ok(Frac(mb[1] * mo[2], mb[2] * mo[1]))

\* delta_s = s * sqrt(rel_err_base^2 + rel_err_opt^2) is kept as its three
\* operands
compute_speedup(baseline, optimized) ==
    LET mb == mean(baseline)
        mo == mean(optimized)
    IN  IF mb.exc # "none" THEN mb
        ELSE IF mo.exc # "none" THEN mo
        ELSE LET s == MeanRatio(mb.val, mo.val)
             IN  IF s.exc # "none" THEN s
                 ELSE LET rel_err_base == rel_err(baseline)
                      IN  IF rel_err_base.exc # "none" THEN rel_err_base
                          ELSE LET rel_err_opt == rel_err(optimized)
                               IN  IF rel_err_opt.exc # "none" THEN rel_err_opt
                                   ELSE Ok([s |-> s.val,
                                            delta_s |->
                                                [s |-> s.val,
                                                 rel_err_base |-> rel_err_base.val,
                                                 rel_err_opt |-> rel_err_opt.val]])

demo_compute_speedup(baseline, optimized) ==
    LET mb == mean(baseline)
        mo == mean(optimized)
    IN  IF mb.exc # "none" THEN mb
        ELSE IF mo.exc # "none" THEN mo
        ELSE LET s == MeanRatio(mb.val, mo.val)
             IN  IF s.exc # "none" THEN s
                 ELSE LET rel_err_base == rel_err(baseline)
                      IN  IF rel_err_base.exc # "none" THEN rel_err_base
                          ELSE LET rel_err_opt == rel_err(optimized)
                               IN  IF rel_err_opt.exc # "none" THEN rel_err_opt
                                   ELSE LET delta == [s |-> s.val,
                                                      rel_err_base |-> rel_err_base.val,
                                                      rel_err_opt |-> rel_err_opt.val]
                                        IN  Ok([s |-> s.val, delta_s |-> delta])

----------------------------------------------------------------------------
(* validate_experiment and the validity loop of the demo script.  rs is    *)
(* the sequence of the dict's measurement lists in insertion order.        *)

\* 100 * 1.96 * result.stdev / (math.sqrt(n) * result.mean)
relative_error(m) ==
    LET sd == stdev(m)
        mu == mean(m)
    IN  IF sd.exc # "none" THEN sd
        ELSE IF mu.val[1] = 0 THEN Raise("ZeroDivisionError")
        ELSE Ok(SurdDiv(SurdMul(FromFrac(<<196, 1>>), sd.val),
                        SurdMul(SqrtInt(Len(m)), FromFrac(mu.val))))

\* `if <criterion fails>: all_valid = False`
ClearOnFail_overwrite(all_valid, fails) == ~fails

ClearOnFail(all_valid, fails) == IF fails THEN FALSE ELSE all_valid

\* lines 219-223
RECURSIVE StabilityLoop(_, _, _)
StabilityLoop(rs, k, all_valid) ==
    IF k > Len(rs) THEN Ok(all_valid)
    ELSE LET c == cv(rs[k])
         IN  IF c.exc # "none" THEN c
             ELSE StabilityLoop(rs, k + 1,
                      ClearOnFail(all_valid, ~SurdLt(c.val, FromFrac(<<10, 1>>))))

\* lines 227-233
RECURSIVE PrecisionLoop(_, _, _)
PrecisionLoop(rs, k, all_valid) ==
    IF k > Len(rs) THEN Ok(all_valid)
    ELSE LET e == relative_error(rs[k])
         IN  IF e.exc # "none" THEN e
             ELSE PrecisionLoop(rs, k + 1,
                      ClearOnFail(all_valid, ~SurdLt(e.val, FromFrac(<<1, 1>>))))

validate_experiment(rs) ==
    LET first == StabilityLoop(rs, 1, TRUE)
    IN  IF first.exc # "none" THEN first
        ELSE PrecisionLoop(rs, 1, first.val)

\* rigorous_benchmark_demo.py, lines 142-148
RECURSIVE DemoStabilityLoop(_, _, _)
DemoStabilityLoop(rs, k, all_valid) ==
    IF k > Len(rs) THEN Ok(all_valid)
    ELSE LET c == cv(rs[k])
         IN  IF c.exc # "none" THEN c
             ELSE IF ~SurdLt(c.val, FromFrac(<<10, 1>>))
                  THEN DemoStabilityLoop(rs, k + 1, FALSE)
                  ELSE DemoStabilityLoop(rs, k + 1, all_valid)

\* rigorous_benchmark_demo.py, lines 150-157
RECURSIVE DemoPrecisionLoop(_, _, _)
DemoPrecisionLoop(rs, k, all_valid) ==
    IF k > Len(rs) THEN Ok(all_valid)
    ELSE LET e == relative_error(rs[k])
         IN  IF e.exc # "none" THEN e
             ELSE IF ~SurdLt(e.val, FromFrac(<<1, 1>>))
                  THEN DemoPrecisionLoop(rs, k + 1, FALSE)
                  ELSE DemoPrecisionLoop(rs, k + 1, all_valid)

demo_validity(rs) ==
    LET first == DemoStabilityLoop(rs, 1, TRUE)
    IN  IF first.exc # "none" THEN first
        ELSE DemoPrecisionLoop(rs, 1, first.val)

----------------------------------------------------------------------------
(* An analysis session over two Samples: the statistics of one Sample, the *)
(* speedup of one over the other, the validity gate over a dict of them.   *)

AnalysisVals == {0 - 1, 0, 10, 11}

Steady == <<10, 10>>

\* alternating 8 and 10: cv just above 11%, and long enough for the margin
\* of the mean to be below 1%
BigSample == [k \in 1..BigN |-> IF k % 2 = 1 THEN 8 ELSE 10]

BigPartners == {<<10, 10>>, <<10, 11>>}

Impls == {"main", "demo"}

InitAnalysis ==
    /\ pc = "analysis"
    /\ iterations = 0
    /\ warmup = 0
    /\ w = 0
    /\ i = 0
    /\ measurements = <<>>
    /\ running = "none"
    /\ log = <<>>
    /\ exc = "none"
    /\ returned = <<>>
    /\ \/ \E m \in SeqsUpTo(AnalysisVals, MaxLen) : heap = <<m, Steady>>
       \/ \E m \in BigPartners : heap = <<m, BigSample>>
    /\ objs = <<[name |-> "A", measurements |-> 1],
                [name |-> "B", measurements |-> 2]>>
    /\ sigmas = <<3, 1>>
    /\ ret = NoRet
    /\ appends = 0

\* the stdev and cv properties and confidence_interval(confidence) of objs[o]
CallDescribe(impl, o, confidence) ==
    /\ pc = "analysis"
    /\ o \in DOMAIN objs
    /\ ret' = [op |-> "describe", impl |-> impl, self |-> o,
               confidence |-> confidence, input |-> Content(o),
               stdev |-> stdev(Content(o)),
               cv |-> cv(Content(o)),
               ci |-> IF impl = "main"
                      THEN confidence_interval(Content(o), confidence)
                      ELSE demo_confidence_interval(Content(o), confidence)]
    /\ UNCHANGED <<heap, objs, sigmas, appends>>
    /\ UNCHANGED acqVars

\* compute_speedup(objs[b], objs[o])
CallComputeSpeedup(impl, b, o) ==
    /\ pc = "analysis"
    /\ b \in DOMAIN objs
    /\ o \in DOMAIN objs
    /\ LET r == IF impl = "main"
                THEN compute_speedup(Content(b), Content(o))
                ELSE demo_compute_speedup(Content(b), Content(o))
       IN  ret' = [op |-> "compute_speedup", impl |-> impl,
                   baseline |-> Content(b), optimized |-> Content(o),
                   exc |-> r.exc,
                   val |-> IF r.exc = "none" THEN r.val ELSE <<>>]
    /\ UNCHANGED <<heap, objs, sigmas, appends>>
    /\ UNCHANGED acqVars

\* the dicts a session can build from its objects: object ids in insertion order
Dicts == {d \in SeqsUpTo(DOMAIN objs, Len(objs)) :
             \A a, b \in DOMAIN d : a # b => d[a] # d[b]}

\* validate_experiment(d) / the validity loop of the demo over d
CallValidate(impl, d) ==
    /\ pc = "analysis"
    /\ d \in Dicts
    /\ LET rs == [k \in DOMAIN d |-> Content(d[k])]
           r == IF impl = "main" THEN validate_experiment(rs) ELSE demo_validity(rs)
       IN  ret' = [op |-> "validate", impl |-> impl, dict |-> d, inputs |-> rs,
                   exc |-> r.exc,
                   val |-> IF r.exc = "none" THEN r.val ELSE FALSE]
    /\ UNCHANGED <<heap, objs, sigmas, appends>>
    /\ UNCHANGED acqVars

NextAnalysis ==
    \/ \E impl \in Impls, o \in 1..2, c \in ConfLevels : CallDescribe(impl, o, c)
    \/ \E impl \in Impls, b \in 1..2, o \in 1..2 : CallComputeSpeedup(impl, b, o)
    \/ \E impl \in Impls, d \in Dicts : CallValidate(impl, d)

SpecAnalysis == InitAnalysis /\ [][NextAnalysis]_vars

----------------------------------------------------------------------------
(* Claims about run_benchmark *)

TimedLog == SelectSeq(log, LAMBDA e : e.phase = "timed")
WarmupLog == SelectSeq(log, LAMBDA e : e.phase = "warmup")

\* the output has a line containing the marker, and the first such line has a
\* second whitespace-separated token that parses as a float
HasMarkerValue(out) ==
    LET lines == splitlines(out)
        marked == {k \in 1..Len(lines) : Contains(lines[k], KeyGenMarker)}
    IN  /\ marked # {}
        /\ LET first == CHOOSE k \in marked : \A j \in marked : k <= j
               parts == split(lines[first])
           IN  Len(parts) >= 2 /\ float(parts[2]).exc = "none"

\* C1: a timed invocation that exits with status 0 and whose output has no
\* marker line, or whose marker line has no second token that parses as a
\* float, ends acquisition with a parse error; run_benchmark never returns
\* fewer than `iterations` measurements.
C1_MissingMarkerIsFatal ==
    /\ \A k \in 1..Len(log) :
          (log[k].phase = "timed" /\ log[k].rc = 0 /\ ~HasMarkerValue(log[k].out))
             => (pc = "raised" /\ exc \in {"IndexError", "ValueError"})
    /\ pc = "returned" => Len(returned) = iterations

\* C2: an invocation (warmup or timed) that exits with a non-zero status is
\* the last one: nothing is in flight after it, run_benchmark has raised
\* CalledProcessError and has returned no list.
C2_NonZeroExitAborts ==
    \A k \in 1..Len(log) :
        log[k].rc # 0 =>
            /\ k = Len(log)
            /\ running = "none"
            /\ pc = "raised"
            /\ exc = "CalledProcessError"
            /\ returned = <<>>

\* witness of C2: a timed invocation failed after a measurement had already
\* been recorded and before the series was complete
C2_Witness ==
    /\ pc = "raised"
    /\ exc = "CalledProcessError"
    /\ log # <<>>
    /\ log[Len(log)].phase = "timed"
    /\ log[Len(log)].rc # 0
    /\ Len(measurements) >= 1
    /\ i < iterations

\* C3: invocations are sequential, exactly `warmup` warmup invocations
\* complete before the first timed one starts, no measurement comes from a
\* warmup invocation, and the value parsed from the k-th timed invocation is
\* at position k of the returned list.
C3_OrderAndPositions ==
    /\ running # "none" => pc \in {"warmup", "timed"}
    /\ (running = "timed" \/ TimedLog # <<>>) =>
          /\ Len(WarmupLog) = warmup
          /\ \A k \in 1..warmup : log[k].phase = "warmup" /\ log[k].rc = 0
    /\ Len(measurements) <= Len(TimedLog)
    /\ pc = "returned" =>
          \A k \in 1..Len(TimedLog) :
              LET p == parse_stdout(TimedLog[k].out)
              IN  (p.exc = "none" /\ p.kind = "value") =>
                      /\ Len(returned) >= k
                      /\ returned[k] = p.val

----------------------------------------------------------------------------
(* Claims about remove_outliers *)

Filtered == ret.op = "remove_outliers"

\* |t - mean| <= threshold * stdev over the list inp, in integers:
\* (n t - S)^2 q^2 (n - 1) <= p^2 n (n Q - S^2) for threshold p / q >= 0
InBand(inp, threshold, t) ==
    LET n == Len(inp)
        d == n * t - Sum(inp)
        ss == n * SumSq(inp) - Sum(inp) * Sum(inp)
    IN  IF threshold[1] >= 0
        THEN d * d * threshold[2] * threshold[2] * (n - 1)
                 <= threshold[1] * threshold[1] * n * ss
        ELSE ss = 0 /\ d = 0

\* the k-th smallest element of a finite set of integers
RECURSIVE Kth(_, _)
Kth(K, k) ==
    LET least == CHOOSE x \in K : \A y \in K : x <= y
    IN  IF k = 1 THEN least ELSE Kth(K \ {least}, k - 1)

\* C4: remove_outliers returns a filtered Sample for every Sample with at
\* least one measurement and every threshold.
C4_FilterAlwaysReturns ==
    (Filtered /\ Len(ret.input) >= 1) => (ret.exc = "none" /\ ret.val \in DOMAIN objs)

\* C5: when remove_outliers returns, its measurements are the input's
\* measurements that lie in the band |t - mean| <= threshold * stdev of the
\* input, in their original order; so the count never grows.
C5_RetainedSubsequence ==
    (Filtered /\ ret.exc = "none") =>
        LET inp == ret.input
            out == ret.output
            K == {j \in 1..Len(inp) : InBand(inp, ret.threshold, inp[j])}
        IN  /\ Len(out) <= Len(inp)
            /\ Len(out) = Cardinality(K)
            /\ \A k \in 1..Len(out) : out[k] = inp[Kth(K, k)]

\* witness of C5: a point in the middle of the list was removed and the
\* points kept around it are different values
C5_Witness ==
    /\ Filtered
    /\ ret.exc = "none"
    /\ Len(ret.input) >= 3
    /\ Len(ret.output) = Len(ret.input) - 1
    /\ ret.output[1] = ret.input[1]
    /\ ret.output[Len(ret.output)] = ret.input[Len(ret.input)]
    /\ ret.output[1] # ret.output[Len(ret.output)]

C10_FreshFilteredSample ==
    [][/\ (ret' # ret /\ ret'.op = "remove_outliers" /\ ret'.exc = "none") =>
             LET o == ret'.self
                 f == ret'.val
             IN  /\ objs'[o] = objs[o]
                 /\ \A l \in DOMAIN heap : heap'[l] = heap[l]
                 /\ f \notin DOMAIN objs
                 /\ f \in DOMAIN objs'
                 /\ objs'[f].name = objs[o].name \o " (filtered)"
                 /\ objs'[f].measurements \notin DOMAIN heap
                 /\ heap'[objs'[f].measurements] = ret'.output
       /\ appends' # appends =>
             \A a, b \in DOMAIN objs :
                 a # b => (Content(a)' = Content(a) \/ Content(b)' = Content(b))
      ]_vars

\* witness of C10: after a round that removed a point, the original list was
\* appended to and the filtered Sample still holds what was returned
C10_Witness ==
    /\ Filtered
    /\ ret.exc = "none"
    /\ ret.output # ret.input
    /\ Content(ret.self) # ret.input
    /\ Content(ret.val) = ret.output
    /\ objs[ret.val].name = "A (filtered)"

----------------------------------------------------------------------------
(* Claims about the validity gate, the speedup estimator and the statistics *)

\* a / b < c / d for positive b and d; common factors are cancelled first
RatioLt(a, b, c, d) ==
    LET g1 == Gcd(Abs(a), Abs(c))
        g2 == Gcd(b, d)
    IN  IF g1 = 0 THEN FALSE
        ELSE (a \div g1) * (d \div g2) < (c \div g1) * (b \div g2)

\* the variance (divisor n - 1) and the square of the mean, as fractions
Variance(m) == Frac(ScaledSS(m), Len(m) * (Len(m) - 1))
MeanSquared(m) ==
    LET mu == Frac(Sum(m), Len(m))
    IN  <<mu[1] * mu[1], mu[2] * mu[2]>>

\* cv < 10 for a list of at least two points with non-zero mean:
\* the mean is not positive (cv is 0), or 100 * variance < mean^2
Stable(m) ==
    \/ Sum(m) <= 0
    \/ RatioLt(100 * Variance(m)[1], Variance(m)[2],
               MeanSquared(m)[1], MeanSquared(m)[2])

\* 100 * 1.96 * stdev / (sqrt(n) * mean) < 1 for the same lists:
\* the mean is negative, or 196^2 * variance < n * mean^2
Precise(m) ==
    LET nq == Frac(Len(m), MeanSquared(m)[2])   \* n / den(mean^2)
    IN  \/ Sum(m) < 0
        \/ RatioLt(38416 * Variance(m)[1], Variance(m)[2],
                   nq[1] * MeanSquared(m)[1], nq[2])

\* C7: when the gate returns, in either script, it returns TRUE exactly when
\* every Sample of the dict passes both the stability and the precision
\* criterion.
C7_GateIsConjunction ==
    (ret.op = "validate" /\ ret.exc = "none") =>
        (ret.val <=> \A k \in DOMAIN ret.inputs :
                         Stable(ret.inputs[k]) /\ Precise(ret.inputs[k]))

\* witness of C7: the gate of rigorous_benchmark.py returned FALSE over two
\* Samples, the first of which passes both criteria while the second fails
\* stability only
C7_Witness ==
    /\ ret.op = "validate"
    /\ ret.impl = "main"
    /\ ret.exc = "none"
    /\ Len(ret.inputs) = 2
    /\ Stable(ret.inputs[1]) /\ Precise(ret.inputs[1])
    /\ ~Stable(ret.inputs[2]) /\ Precise(ret.inputs[2])
    /\ ret.val = FALSE

\* C8: compute_speedup returns only when the mean of the optimized Sample is
\* positive.
C8_RatioNeedsPositiveMean ==
    (ret.op = "compute_speedup" /\ ret.exc = "none") => Sum(ret.optimized) > 0

\* C9: for a Sample of n >= 1 identical values v > 0, stdev is 0, cv is 0 and
\* the confidence interval is (v, v), at every confidence level, in both
\* scripts, and none of them raises.
C9_IdenticalValues ==
    (/\ ret.op = "describe"
     /\ \A k \in DOMAIN ret.input : ret.input[k] = ret.input[1] /\ ret.input[k] > 0)
        => /\ ret.stdev = Ok(ZeroSurd)
           /\ ret.cv = Ok(ZeroSurd)
           /\ ret.ci = Ok([mean |-> <<ret.input[1], 1>>, margin |-> ZeroSurd])

====
